---- MODULE Spec2Model ----
(***************************************************************************)
(* Frequency-based spelling corrector (spell_checker.py).                  *)
(*                                                                         *)
(* Characters are small integers:                                          *)
(*   0      the space U+0020 (what " ".join puts between tokens)           *)
(*   1, 2   Devanagari characters that are listed in hindi_alphabet        *)
(*   3      a Devanagari character of the range U+0900-U+097F that is NOT  *)
(*          listed in hindi_alphabet (the virama U+094D, the anusvara      *)
(*          U+0902, the danda U+0964, the digits, ...: 71 of the 128)      *)
(*   4      any other non-Devanagari character (Latin letter, punctuation) *)
(* A str is a sequence of characters; a set of str is a set of sequences.  *)
(***************************************************************************)
EXTENDS Integers, Sequences, FiniteSets, TLC

\* ---------------------------------------------------------------- bounds
MaxLen == 2          \* longest index key / longest word passed to a call
MaxKeys == 2         \* most keys in the loaded index
MaxCount == 1        \* largest count stored for a key
MaxTextLen == 3      \* longest text passed to correct_text
MaxEditLen == 4      \* longest word passed to edits1 on its own

\* ------------------------------------------------------------ characters
Space == 0
hindi_alphabet == {1, 2}
DevanagariRange == {1, 2, 3}
TextChars == {0, 1, 2, 3, 4}

\* str.lower() of one character of a token: no character of U+0900-U+097F is
\* cased, so lower() maps each of them to itself (tokens hold no others)
lower(c) == c

StrsUpTo(chars, n) == UNION {[1..k -> chars] : k \in 0..n}

Words == StrsUpTo(DevanagariRange, MaxLen)
Texts == StrsUpTo(TextChars, MaxTextLen)
EditWords == StrsUpTo(DevanagariRange, MaxEditLen)

RECURSIVE SubsetsUpTo(_, _)
SubsetsUpTo(S, k) ==
    IF k = 0 THEN {{}}
    ELSE LET P == SubsetsUpTo(S, k - 1)
         IN  P \cup {p \cup {x} : p \in P, x \in S}

\* every index json.load can hand over, within the bounds
Indexes == UNION {[K -> 0..MaxCount] : K \in SubsetsUpTo(Words, MaxKeys)}

\* the enumeration orders of a set of str that different hash seeds give
HashSeeds == {"asc", "desc"}

\* ------------------------------------------------------------- edit model
Drop(s, k) == SubSeq(s, k + 1, Len(s))
Take(s, k) == SubSeq(s, 1, k)

splits(word) == {<<Take(word, i), Drop(word, i)>> : i \in 0..Len(word)}

deletes(word) == {sp[1] \o Drop(sp[2], 1) : sp \in {s \in splits(word) : Len(s[2]) > 0}}

transposes(word) ==
    {sp[1] \o <<sp[2][2], sp[2][1]>> \o Drop(sp[2], 2) :
        sp \in {s \in splits(word) : Len(s[2]) > 1}}

replaces(word) ==
    {sp[1] \o <<c>> \o Drop(sp[2], 1) :
        sp \in {s \in splits(word) : Len(s[2]) > 0}, c \in hindi_alphabet}

\* mutant: insertion draws from the whole Devanagari range
inserts_any_devanagari(word) ==
    {sp[1] \o <<c>> \o sp[2] : sp \in splits(word), c \in DevanagariRange}

inserts(word) == {sp[1] \o <<c>> \o sp[2] : sp \in splits(word), c \in hindi_alphabet}

edits1(word) == deletes(word) \cup transposes(word) \cup replaces(word) \cup inserts(word)

edits2(word) == UNION {edits1(e1) : e1 \in edits1(word)}

\* --------------------------------------------------------------- tokenize
RECURSIVE findall(_, _, _)
\* re.findall(r'[\u0900-\u097F]+', text): maximal runs, left to right
findall(text, i, run) ==
    IF i > Len(text)
    THEN IF run = <<>> THEN <<>> ELSE <<run>>
    ELSE IF text[i] \in DevanagariRange
         THEN findall(text, i + 1, Append(run, text[i]))
         ELSE IF run = <<>>
              THEN findall(text, i + 1, <<>>)
              ELSE <<run>> \o findall(text, i + 1, <<>>)

tokenize(text) ==
    IF text = <<>> THEN <<>>
    ELSE LET runs == findall(text, 1, <<>>)
         IN  [k \in 1..Len(runs) |-> [j \in 1..Len(runs[k]) |-> lower(runs[k][j])]]

\* ------------------------------------------------------------ the index
RECURSIVE sum(_, _)
\* sum(self.word_counts.values())
sum(wc, keys) ==
    IF keys = {} THEN 0
    ELSE LET k == CHOOSE x \in keys : TRUE
         IN  wc[k] + sum(wc, keys \ {k})

\* dict.get(word, 0)
get(wc, word) == IF word \in DOMAIN wc THEN wc[word] ELSE 0

\* count / total_words as the fraction <<count, total_words>>; a float division
\* by 0.0 raises ZeroDivisionError
ZeroDivisionError == "ZeroDivisionError"

probability(wc, total, word) ==
    IF total = 0 THEN ZeroDivisionError ELSE <<get(wc, word), total>>

\* p < q for two fractions with positive denominators
ProbLess(p, q) == p[1] * q[2] < q[1] * p[2]

known(wc, words) == {w \in words : w \in DOMAIN wc}

\* ------------------------------------------- list(candidates) of a set
RECURSIVE LexLess(_, _)
LexLess(a, b) ==
    IF a = <<>> THEN b # <<>>
    ELSE IF b = <<>> THEN FALSE
    ELSE IF a[1] # b[1] THEN a[1] < b[1]
    ELSE LexLess(Tail(a), Tail(b))

Before(seed, a, b) == IF seed = "asc" THEN LexLess(a, b) ELSE LexLess(b, a)

RECURSIVE list(_, _)
\* the order in which iterating the set yields its elements: fixed by the
\* process's str hash seed, not by the program
list(seed, S) ==
    IF S = {} THEN <<>>
    ELSE LET first == CHOOSE x \in S : \A y \in S \ {x} : Before(seed, x, y)
         IN  <<first>> \o list(seed, S \ {first})

\* ------------------------------------------------ sorted(..., reverse=True)
RECURSIVE insert_ascending(_, _, _, _)
\* mutant: reverse=True left out, the sort is ascending
insert_ascending(wc, total, x, out) ==
    IF out = <<>> THEN <<x>>
    ELSE IF ProbLess(probability(wc, total, x), probability(wc, total, Head(out)))
         THEN <<x>> \o out
         ELSE <<Head(out)>> \o insert_ascending(wc, total, x, Tail(out))

RECURSIVE insert(_, _, _, _)
\* puts x behind every element whose key is not smaller than x's: equal keys
\* keep the order of the input list (the sort is stable, also when reversed)
insert(wc, total, x, out) ==
    IF out = <<>> THEN <<x>>
    ELSE IF ProbLess(probability(wc, total, Head(out)), probability(wc, total, x))
         THEN <<x>> \o out
         ELSE <<Head(out)>> \o insert(wc, total, x, Tail(out))

RECURSIVE sortloop(_, _, _, _, _)
sortloop(wc, total, lst, i, out) ==
    IF i > Len(lst) THEN out
    ELSE sortloop(wc, total, lst, i + 1, insert(wc, total, lst[i], out))

Return(v, t) == [kind |-> "return", val |-> v, tier |-> t]
Raise(e, t) == [kind |-> "raise", exc |-> e, tier |-> t]

\* sorted(list(candidates), key=self.probability, reverse=True): the key of
\* every element is computed first, so a zero total raises even for one element
sorted(wc, total, seed, candidates, t) ==
    IF total = 0 THEN Raise(ZeroDivisionError, t)
    ELSE Return(sortloop(wc, total, list(seed, candidates), 1, <<>>), t)

get_candidates(wc, total, seed, word) ==
    LET c1 == known(wc, {word}) IN
    IF c1 # {} THEN sorted(wc, total, seed, c1, 1)
    ELSE LET c2 == known(wc, edits1(word)) IN
         IF c2 # {} THEN sorted(wc, total, seed, c2, 2)
         ELSE LET c3 == known(wc, edits2(word)) IN
              IF c3 # {} THEN sorted(wc, total, seed, c3, 3)
              ELSE Return(<<word>>, 4)

\* ------------------------------------------------------------ correct_text
RECURSIVE join_no_separator(_)
\* mutant: "".join(tokens)
join_no_separator(tokens) ==
    IF tokens = <<>> THEN <<>>
    ELSE tokens[1] \o join_no_separator(Tail(tokens))

RECURSIVE join(_)
\* " ".join(tokens)
join(tokens) ==
    IF tokens = <<>> THEN <<>>
    ELSE IF Len(tokens) = 1 THEN tokens[1]
    ELSE tokens[1] \o <<Space>> \o join(Tail(tokens))

\* mutant: candidate_map[word] = [best_correction]
setitem_best_only(m, k, v) ==
    [x \in DOMAIN m \cup {k} |-> IF x = k THEN <<v[1]>> ELSE m[x]]

\* candidate_map[word] = candidates
setitem(m, k, v) == [x \in DOMAIN m \cup {k} |-> IF x = k THEN v ELSE m[x]]

RECURSIVE correctloop(_, _, _, _, _, _, _)
correctloop(wc, total, seed, source_tokens, i, corrected_tokens, candidate_map) ==
    IF i > Len(source_tokens)
    THEN [kind |-> "return",
          sentence |-> join(corrected_tokens),
          map |-> candidate_map,
          source_tokens |-> source_tokens,
          corrected_tokens |-> corrected_tokens]
    ELSE LET word == source_tokens[i] IN
         IF word \in DOMAIN wc
         THEN correctloop(wc, total, seed, source_tokens, i + 1,
                          Append(corrected_tokens, word), candidate_map)
         ELSE LET candidates == get_candidates(wc, total, seed, word) IN
              IF candidates.kind = "raise"
              THEN [kind |-> "raise", exc |-> candidates.exc]
              ELSE correctloop(wc, total, seed, source_tokens, i + 1,
                               Append(corrected_tokens, candidates.val[1]),
                               setitem(candidate_map, word, candidates.val))

correct_text(wc, total, seed, text) ==
    correctloop(wc, total, seed, tokenize(text), 1, <<>>, <<>>)

\* ------------------------------------------------------------ state machine
VARIABLES
    word_counts,   \* self.word_counts, read-only after __init__
    total_words,   \* self.total_words
    hashseed,      \* the process's str hash seed
    pc,            \* "idle", or the call whose result is held in ret
    arg,           \* the argument of that call
    ret            \* what the call returned or raised

vars == <<word_counts, total_words, hashseed, pc, arg, ret>>

None == "None"

Init ==
    /\ word_counts \in Indexes
    /\ total_words = sum(word_counts, DOMAIN word_counts)
    /\ hashseed \in HashSeeds
    /\ pc = "idle"
    /\ arg = None
    /\ ret = None

CallGetCandidates(word) ==
    /\ pc = "idle"
    /\ pc' = "get_candidates"
    /\ arg' = word
    /\ ret' = get_candidates(word_counts, total_words, hashseed, word)
    /\ UNCHANGED <<word_counts, total_words, hashseed>>

CallCorrectText(text) ==
    /\ pc = "idle"
    /\ pc' = "correct_text"
    /\ arg' = text
    /\ ret' = correct_text(word_counts, total_words, hashseed, text)
    /\ UNCHANGED <<word_counts, total_words, hashseed>>

\* the caller is done with the result and may call again
Done ==
    /\ pc # "idle"
    /\ pc' = "idle"
    /\ arg' = None
    /\ ret' = None
    /\ UNCHANGED <<word_counts, total_words, hashseed>>

Next ==
    \/ \E word \in Words : CallGetCandidates(word)
    \/ \E text \in Texts : CallCorrectText(text)
    \/ Done

Spec == Init /\ [][Next]_vars

\* edits1 is a module-level function: it needs no SpellChecker, so it is
\* exercised on its own, on longer words, with no index loaded
InitEdits ==
    /\ word_counts = None
    /\ total_words = None
    /\ hashseed \in HashSeeds
    /\ pc = "idle"
    /\ arg = None
    /\ ret = None

CallEdits1(word) ==
    /\ pc = "idle"
    /\ pc' = "edits1"
    /\ arg' = word
    /\ ret' = edits1(word)
    /\ UNCHANGED <<word_counts, total_words, hashseed>>

NextEdits ==
    \/ \E word \in EditWords : CallEdits1(word)
    \/ Done

SpecEdits == InitEdits /\ [][NextEdits]_vars

\* ===================================================================
\* Claims
\* ===================================================================
Keys == DOMAIN word_counts
InGetCandidates == pc = "get_candidates"
InCorrectText == pc = "correct_text"
Returned == ret.kind = "return"
A == Cardinality(hindi_alphabet)

\* one elementary edit over every character a Word can hold (the whole
\* Devanagari range the tokenizer accepts), as the glossary defines distance
AnyEdits1(word) ==
    deletes(word) \cup transposes(word)
    \cup {sp[1] \o <<c>> \o Drop(sp[2], 1) :
            sp \in {s \in splits(word) : Len(s[2]) > 0}, c \in DevanagariRange}
    \cup {sp[1] \o <<c>> \o sp[2] : sp \in splits(word), c \in DevanagariRange}

Distance1(a, b) == a # b /\ b \in AnyEdits1(a)

NoCandidates(word) ==
    /\ word \notin Keys
    /\ known(word_counts, edits1(word)) = {}
    /\ known(word_counts, edits2(word)) = {}

RECURSIVE SingleSpaced(_, _)
\* the tokens from the i-th on, one space between neighbours
SingleSpaced(tokens, i) ==
    IF i > Len(tokens) THEN <<>>
    ELSE (IF i > 1 THEN <<Space>> ELSE <<>>) \o tokens[i] \o SingleSpaced(tokens, i + 1)

Range(f) == {f[i] : i \in DOMAIN f}

\* C1: for every index and every word that is a key of it, get_candidates(word)
\* returns exactly [word], from tier 1, with no edit search.
C1_KnownWordReturnsItself ==
    (InGetCandidates /\ arg \in Keys)
        => (Returned /\ ret.val = <<arg>> /\ ret.tier = 1)

\* C2: for a word that is no key but has a key at edit distance 1 (any Word
\* character), every element get_candidates returns is a key at distance
\* exactly 1 from the word.
C2_OnlyDistanceOne ==
    (/\ InGetCandidates
     /\ Returned
     /\ arg \notin Keys
     /\ \E k \in Keys : Distance1(arg, k))
        => \A i \in 1..Len(ret.val) : ret.val[i] \in Keys /\ Distance1(arg, ret.val[i])

\* C3: the list get_candidates returns is sorted by non-increasing count
\* (probability): count(list[i]) >= count(list[i+1]) for adjacent positions;
\* the same holds of every list correct_text records.
NonIncreasing(lst) ==
    \A i \in 1..(Len(lst) - 1) : get(word_counts, lst[i]) >= get(word_counts, lst[i + 1])

C3_SortedByProbability ==
    /\ (InGetCandidates /\ Returned) => NonIncreasing(ret.val)
    /\ (InCorrectText /\ Returned) => \A w \in DOMAIN ret.map : NonIncreasing(ret.map[w])

C3_Witness ==
    /\ InGetCandidates
    /\ Returned
    /\ Len(ret.val) >= 2
    /\ get(word_counts, ret.val[1]) > get(word_counts, ret.val[2])
    /\ hashseed = "asc"
    /\ LexLess(ret.val[2], ret.val[1])

\* C4: the keys of the returned Candidate Trail are exactly the tokens of the
\* text that are no index keys; each maps to the full list get_candidates
\* returns for it, whose first element is emitted at the token's positions
\* (a known token is emitted as it is).
C4_TrailIsUnknownTokens ==
    (InCorrectText /\ Returned) =>
        LET tokens == tokenize(arg) IN
        /\ DOMAIN ret.map = Range(tokens) \ Keys
        /\ \A w \in DOMAIN ret.map :
              LET g == get_candidates(word_counts, total_words, hashseed, w)
              IN  g.kind = "return" /\ ret.map[w] = g.val
        /\ Len(ret.corrected_tokens) = Len(tokens)
        /\ \A i \in 1..Len(tokens) :
              ret.corrected_tokens[i] =
                  IF tokens[i] \in Keys THEN tokens[i] ELSE ret.map[tokens[i]][1]
        /\ ret.sentence = SingleSpaced(ret.corrected_tokens, 1)

C4_Witness ==
    /\ InCorrectText
    /\ Returned
    /\ Len(ret.source_tokens) = 2
    /\ ret.source_tokens[1] \in Keys
    /\ ret.source_tokens[2] \notin Keys
    /\ Len(ret.map[ret.source_tokens[2]]) = 2
    /\ ret.corrected_tokens[2] # ret.source_tokens[2]

\* C5: a text all of whose tokens are index keys comes back as its tokens,
\* unchanged and in order, joined by single spaces, with an empty trail.
C5_IdempotentOnKnownText ==
    (InCorrectText /\ Range(tokenize(arg)) \subseteq Keys) =>
        /\ Returned
        /\ ret.corrected_tokens = tokenize(arg)
        /\ ret.sentence = SingleSpaced(tokenize(arg), 1)
        /\ DOMAIN ret.map = {}

C5_Witness ==
    /\ InCorrectText
    /\ Len(tokenize(arg)) = 2
    /\ Range(tokenize(arg)) \subseteq Keys
    /\ Returned
    /\ ret.sentence # arg
    /\ total_words = 0

\* C6: for a token that is no key and has no key in its one-edit or two-edit
\* set, get_candidates returns [token], correct_text emits the token
\* unchanged, and the trail entry for it is exactly [token].
C6_NoCorrectionFound ==
    /\ (InGetCandidates /\ NoCandidates(arg)) => (Returned /\ ret.val = <<arg>>)
    /\ InCorrectText =>
          LET tokens == tokenize(arg) IN
          \A i \in 1..Len(tokens) :
              NoCandidates(tokens[i]) =>
                  /\ Returned
                  /\ ret.corrected_tokens[i] = tokens[i]
                  /\ tokens[i] \in DOMAIN ret.map
                  /\ ret.map[tokens[i]] = <<tokens[i]>>

\* C7: get_candidates is deterministic, also on ties: the list does not depend
\* on the enumeration order of the candidate set handed to the sort.
C7_Deterministic ==
    (InGetCandidates /\ Returned) =>
        \A seed \in HashSeeds :
            get_candidates(word_counts, total_words, seed, arg).val = ret.val

\* C8: correct_text is total: for every text and every index (the empty one and
\* one whose counts sum to zero included) it returns a pair; for a text with
\* no Devanagari run the pair is the empty string and an empty trail.
C8_Total ==
    InCorrectText =>
        /\ Returned
        /\ tokenize(arg) = <<>> => (ret.sentence = <<>> /\ DOMAIN ret.map = {})

\* C9: from the word and the returned list alone the caller can tell a
\* known-word match (tier 1) from no correction found (tier 4): no index in
\* which the word is a key yields the list that tier 4 returned for the word.
C9_Distinguishable ==
    (InGetCandidates /\ Returned /\ ret.tier = 4) =>
        \A wc \in Indexes :
            arg \in DOMAIN wc =>
                LET known_match == get_candidates(wc, sum(wc, DOMAIN wc), hashseed, arg)
                IN  known_match.kind = "return" => known_match.val # ret.val

\* C10 as stated: |edits1(w)| <= n + (n-1) + n*A + (n+1)*A for every n, n = 0
\* included.
C10_SizeBound ==
    pc = "edits1" =>
        LET n == Len(arg)
        IN  Cardinality(ret) <= n + (n - 1) + n * A + (n + 1) * A

\* C10 amended: the bound holds for n >= 1; for n = 0 there is no "n - 1"
\* transposition term and edits1 is exactly the A one-character insertions.
C10_SizeBoundAmended ==
    pc = "edits1" =>
        LET n == Len(arg)
        IN  IF n = 0
            THEN ret = {<<c>> : c \in hindi_alphabet} /\ Cardinality(ret) = A
            ELSE Cardinality(ret) <= n + (n - 1) + n * A + (n + 1) * A

C10_Witness ==
    /\ pc = "edits1"
    /\ Len(arg) = MaxEditLen
    /\ Cardinality(ret) > Len(arg) * A

====
